---- MODULE Spec2Model ----
(***************************************************************************)
(* A model of harvest_data.py: the closing-method resolver                 *)
(* (find_closing_method), the calculators it lives beside, and the         *)
(* per-row driver (build_output, main).                                    *)
(*                                                                         *)
(* Conventions.  A timestamp is a number of seconds; 0 stands for a        *)
(* missing one (None, "" or an absent key; for the created_at of an event  *)
(* or comment, which the code compares as a string, an absent key).  A     *)
(* Python value that may be None is                                        *)
(* a sequence of length at most one: << >> is None, <<x>> is x.            *)
(* A Python string that the code takes apart (a commit URL, a commit id)   *)
(* is a sequence of one-character strings.  The GitHub API is the          *)
(* environment: the outcome of every request is chosen when it is made.    *)
(***************************************************************************)
EXTENDS Integers, Sequences, FiniteSets, TLC

VARIABLES
    issue,           \* the issue being resolved: [state, created_at, closed_at]
    events,          \* its timeline, as find_closing_method receives it
    pc,              \* position in find_closing_method
    k,               \* position in the sorted event list of strategy 2 or 3
    closing_pr,      \* first component of the returned pair
    closing_commit,  \* second component of the returned pair
    calls,           \* history: the strategies that have sent a request so far
    examined,        \* history: timeline positions a loop body has run on
    accepted,        \* history: the strategy whose candidate passed validation (0: none)
    last,            \* history: what the latest step fetched and decided
    mainpc,          \* position in main: "idle" (not running), "loop", "build"
    row,             \* number of the input row main is at (0: main is not running)
    got,             \* history: how the mandatory fetches of the current row ended
    out,             \* the output file: the rows whose record has been written
    rec,             \* the record written last
    failed,          \* history: the rows build_output refused or raised on
    comments,        \* the comments a calculator is applied to
    result           \* what the calculator applied last returned or raised

resolver_vars == <<issue, events, pc, k, closing_pr, closing_commit, calls,
                   examined, accepted, last>>

main_vars == <<mainpc, row, got, out, rec, failed>>

calc_vars == <<comments, result>>

vars == <<issue, events, pc, k, closing_pr, closing_commit, calls, examined,
          accepted, last, mainpc, row, got, out, rec, failed, comments, result>>

(***************************************************************************)
(* Bounds of the model and constants of the program.                       *)
(***************************************************************************)
MaxEvents == 3

MaxMainEvents == 2

MaxRows == 2

MaxComments == 2

Window1 == 86400

Window7 == 604800

NoTime == 0

None == << >>

Some(x) == <<x>>

(***************************************************************************)
(* Timestamp utilities.                                                    *)
(***************************************************************************)
parse_timestamp(iso_string) ==
    IF iso_string = NoTime THEN None ELSE Some(iso_string)

Abs(x) == IF x < 0 THEN -x ELSE x

(***************************************************************************)
(* Strings the code takes apart.                                           *)
(***************************************************************************)
RECURSIVE rstrip(_, _)
rstrip(s, ch) ==
    IF s # << >> /\ s[Len(s)] = ch
    THEN rstrip(SubSeq(s, 1, Len(s) - 1), ch)
    ELSE s

RECURSIVE last_part(_, _)
(* s.split(ch)[-1]: what follows the last ch of s, or s when it has none *)
last_part(s, ch) ==
    IF s = << >> THEN << >>
    ELSE IF s[Len(s)] = ch THEN << >>
    ELSE Append(last_part(SubSeq(s, 1, Len(s) - 1), ch), s[Len(s)])

(***************************************************************************)
(* The timeline.                                                           *)
(***************************************************************************)
NoSource == [type |-> "none", number |-> 0]

PR(n) == [type |-> "issue", number |-> n]

Event(kind, t, src, cid, curl) ==
    [event |-> kind, created_at |-> t, source |-> src,
     commit_id |-> cid, commit_url |-> curl]

events_of_kind(evs, kind) ==
    {i \in 1..Len(evs) : evs[i].event = kind}

(* max(closed_events, key=created_at): the first event, in input order,
   among those of the greatest key *)
latest(evs, idx) ==
    CHOOSE i \in idx :
        \A j \in idx : \/ evs[j].created_at < evs[i].created_at
                       \/ (evs[j].created_at = evs[i].created_at /\ i <= j)

RECURSIVE sorted_desc_input_order(_, _)
(* a variant of sorted_desc that leaves the events in input order *)
sorted_desc_input_order(evs, idx) ==
    IF idx = {} THEN << >>
    ELSE LET i == CHOOSE i \in idx : \A j \in idx : i <= j
         IN  <<i>> \o sorted_desc_input_order(evs, idx \ {i})

RECURSIVE sorted_desc(_, _)
(* sorted(..., key=created_at, reverse=True): stable, so equal keys keep
   their input order *)
sorted_desc(evs, idx) ==
    IF idx = {} THEN << >>
    ELSE LET i == latest(evs, idx)
         IN  <<i>> \o sorted_desc(evs, idx \ {i})

is_pr_reference(src) == src.type = "issue" /\ src.number # 0

(***************************************************************************)
(* The fetch collaborator's answers.                                       *)
(***************************************************************************)
Offsets == {Window1, Window1 + 1, Window7, Window7 + 1}

(* the merge times a PR may have: the edges of both windows on either side
   of the close that are not before the creation, and one second before the
   creation; one merge time when the issue has no creation time (validation
   then never reads it) *)
MergeTimes(iss) ==
    IF iss.created_at = NoTime THEN {iss.closed_at}
    ELSE {m \in {iss.closed_at + o : o \in Offsets}
                \cup {iss.closed_at - o : o \in Offsets} : ~(m < iss.created_at)}
         \cup {iss.created_at - 1}

(* an answer to "PR details" then "PR reviews": details fail or give
   merged_at (NoTime: not merged); reviews fail (-1) or give that many
   reviews.  No code reads the reviews and the merge time together, so a
   failed reviews request is paired with two merge times only. *)
PrAnswers(iss) ==
    {[details |-> "fail", merged_at |-> NoTime, reviews |-> 0]}
    \cup {[details |-> "ok", merged_at |-> m, reviews |-> 1] :
             m \in MergeTimes(iss) \cup {NoTime}}
    \cup {[details |-> "ok", merged_at |-> m, reviews |-> -1] :
             m \in {NoTime, iss.closed_at + Window1}}

PullsAnswers == {[pulls |-> "fail", number |-> 0],
                 [pulls |-> "empty", number |-> 0],
                 [pulls |-> "some", number |-> 41]}

CommitAnswers == {"fail", "ok"}

fetch_pr_details(pr_number, ans) ==
    IF ans.details = "fail" THEN None
    ELSE Some([number |-> pr_number, merged_at |-> ans.merged_at])

fetch_pr_reviews(pr_number, ans) ==
    IF ans.reviews < 0 THEN 0 ELSE ans.reviews

(* a variant of extract_pr_metrics that takes a PR GitHub reports closed but
   not merged for a merged one, dated at its close *)
extract_pr_metrics_closed_as_merged(pr_number, ans) ==
    LET pr_data == fetch_pr_details(pr_number, ans)
    IN  IF pr_data = None THEN None
        ELSE Some([number |-> pr_data[1].number,
                   merged |-> TRUE,
                   merged_at |-> IF pr_data[1].merged_at = NoTime
                                 THEN 1000000 ELSE pr_data[1].merged_at,
                   total_reviews |-> fetch_pr_reviews(pr_number, ans)])

extract_pr_metrics(pr_number, ans) ==
    LET pr_data == fetch_pr_details(pr_number, ans)
    IN  IF pr_data = None THEN None
        ELSE Some([number |-> pr_data[1].number,
                   merged |-> pr_data[1].merged_at # NoTime,
                   merged_at |-> pr_data[1].merged_at,
                   total_reviews |-> fetch_pr_reviews(pr_number, ans)])

extract_commit_metrics(commit_sha, ans) ==
    IF ans = "fail" THEN None ELSE Some([sha |-> commit_sha])

(***************************************************************************)
(* Validation of a candidate PR.                                           *)
(***************************************************************************)
(* a variant of within_window that shuts the limit itself out *)
within_window_strict(time_diff, window) == time_diff < window

within_window(time_diff, window) == ~(time_diff > window)

(* a variant of validate without the comparison with the issue's creation *)
validate_ignoring_creation(pr_metrics, issue_created_at, issue_closed_at, window) ==
    IF pr_metrics = None THEN "unfetched"
    ELSE IF ~pr_metrics[1].merged THEN "unmerged"
    ELSE LET pr_merged_time == parse_timestamp(pr_metrics[1].merged_at)
             issue_created_time == parse_timestamp(issue_created_at)
             issue_closed_time == parse_timestamp(issue_closed_at)
         IN  IF pr_merged_time = None \/ issue_created_time = None
                \/ issue_closed_time = None
             THEN "undated"
             ELSE IF ~(Abs(pr_merged_time[1] - issue_closed_time[1]) > window)
                  THEN "accept"
                  ELSE "far"

validate(pr_metrics, issue_created_at, issue_closed_at, window) ==
    IF pr_metrics = None THEN "unfetched"
    ELSE IF ~pr_metrics[1].merged THEN "unmerged"
    ELSE LET pr_merged_time == parse_timestamp(pr_metrics[1].merged_at)
             issue_created_time == parse_timestamp(issue_created_at)
             issue_closed_time == parse_timestamp(issue_closed_at)
         IN  IF pr_merged_time = None \/ issue_created_time = None
                \/ issue_closed_time = None
             THEN "undated"
             ELSE IF pr_merged_time[1] < issue_created_time[1] THEN "before"
             ELSE IF within_window(Abs(pr_merged_time[1] - issue_closed_time[1]), window)
                  THEN "accept"
                  ELSE "far"

(***************************************************************************)
(* calculate_reopen_metrics.                                               *)
(***************************************************************************)
calculate_time_diff(start_time, end_time) ==
    LET start == parse_timestamp(start_time)
        end == parse_timestamp(end_time)
    IN  IF start = None \/ end = None THEN None
        ELSE Some(end[1] - start[1])

(* a variant of earliest that takes the first event in input order *)
earliest_in_input(evs, idx) ==
    CHOOSE i \in idx : \A j \in idx : i <= j

(* min(..., key=created_at): the first event, in input order, among those
   of the least key *)
earliest(evs, idx) ==
    CHOOSE i \in idx :
        \A j \in idx : \/ evs[i].created_at < evs[j].created_at
                       \/ (evs[j].created_at = evs[i].created_at /\ i <= j)

RECURSIVE created_at_of(_, _)
(* [e.get("created_at") for e in evs if e.get("event") == kind] *)
created_at_of(evs, kind) ==
    IF evs = << >> THEN << >>
    ELSE (IF Head(evs).event = kind THEN <<Head(evs).created_at>> ELSE << >>)
         \o created_at_of(Tail(evs), kind)

DefaultReopenMetrics ==
    [was_reopened |-> FALSE, reopen_count |-> 0, time_to_reopen_seconds |-> None,
     final_resolution_time_seconds |-> None, reopen_timestamps |-> << >>]

(* a variant of calculate_reopen_metrics that computes the final resolution
   time before it looks for reopened events *)
calculate_reopen_metrics_resolution_first(iss, evs) ==
    LET closed_events == events_of_kind(evs, "closed")
        reopened_events == events_of_kind(evs, "reopened")
        final_resolution == IF iss.state = "closed" /\ iss.created_at # NoTime
                               /\ iss.closed_at # NoTime
                            THEN calculate_time_diff(iss.created_at, iss.closed_at)
                            ELSE None
    IN  IF reopened_events = {}
        THEN [DefaultReopenMetrics EXCEPT
                 !.final_resolution_time_seconds = final_resolution]
        ELSE [was_reopened |-> TRUE,
              reopen_count |-> Cardinality(reopened_events),
              reopen_timestamps |-> created_at_of(evs, "reopened"),
              time_to_reopen_seconds |->
                  IF closed_events # {}
                  THEN calculate_time_diff(
                           evs[earliest(evs, closed_events)].created_at,
                           evs[earliest(evs, reopened_events)].created_at)
                  ELSE None,
              final_resolution_time_seconds |-> final_resolution]

calculate_reopen_metrics(iss, evs) ==
    LET closed_events == events_of_kind(evs, "closed")
        reopened_events == events_of_kind(evs, "reopened")
    IN  IF reopened_events = {} THEN DefaultReopenMetrics
        ELSE [was_reopened |-> TRUE,
              reopen_count |-> Cardinality(reopened_events),
              reopen_timestamps |-> created_at_of(evs, "reopened"),
              time_to_reopen_seconds |->
                  IF closed_events # {}
                  THEN calculate_time_diff(
                           evs[earliest(evs, closed_events)].created_at,
                           evs[earliest(evs, reopened_events)].created_at)
                  ELSE None,
              final_resolution_time_seconds |->
                  IF iss.state = "closed" /\ iss.created_at # NoTime
                     /\ iss.closed_at # NoTime
                  THEN calculate_time_diff(iss.created_at, iss.closed_at)
                  ELSE None]

(***************************************************************************)
(* Users and comments.  A "user" value is null, or an object whose login   *)
(* may be missing (NoLogin); an absent "user" key reads as {} and so as an *)
(* object without login.                                                   *)
(***************************************************************************)
NoLogin == ""

NullUser == [null |-> TRUE, login |-> NoLogin]

User(name) == [null |-> FALSE, login |-> name]

Comment(user, t, assoc) ==
    [user |-> user, created_at |-> t, author_association |-> assoc]

(* x.get("user", {}).get("login"): None.get raises AttributeError *)
login_of(x) ==
    [raised |-> x.user.null, value |-> x.user.login]

Returned(v) == [raised |-> FALSE, value |-> v]

Raised == [raised |-> TRUE, value |-> << >>]

(* min(cs, key=created_at) over the comments at the positions idx *)
first_of(cs, idx) ==
    CHOOSE i \in idx :
        \A j \in idx : \/ cs[i].created_at < cs[j].created_at
                       \/ (cs[j].created_at = cs[i].created_at /\ i <= j)

(***************************************************************************)
(* calculate_timestamps (time_open_days, a rounding of                     *)
(* time_to_close_seconds, is left out).                                    *)
(***************************************************************************)
(* a variant of other_comments_of that keeps the author's own comments *)
other_comments_of_anyone(cs, author_username) == 1..Len(cs)

(* [c for c in comments if c.get("user", {}).get("login") != author_username] *)
other_comments_of(cs, author_username) ==
    {i \in 1..Len(cs) : cs[i].user.login # author_username}

calculate_timestamps(iss, cs) ==
    LET created_at == iss.created_at
        closed_at == iss.closed_at
        all == 1..Len(cs)
        author == login_of(iss)
        other_comments == other_comments_of(cs, author.value)
        time_to_close == IF created_at # NoTime /\ closed_at # NoTime
                         THEN calculate_time_diff(created_at, closed_at)
                         ELSE None
        first_comment == IF cs # << >> /\ created_at # NoTime
                         THEN calculate_time_diff(created_at,
                                                  cs[first_of(cs, all)].created_at)
                         ELSE None
        first_response == IF cs # << >> /\ created_at # NoTime /\ other_comments # {}
                          THEN calculate_time_diff(
                                   created_at,
                                   cs[first_of(cs, other_comments)].created_at)
                          ELSE None
    IN  IF /\ cs # << >>
           /\ created_at # NoTime
           /\ (author.raised \/ \E i \in all : login_of(cs[i]).raised)
        THEN Raised
        ELSE Returned([time_to_close_seconds |-> time_to_close,
                       time_to_first_comment_seconds |-> first_comment,
                       time_to_first_response_seconds |-> first_response])

(***************************************************************************)
(* calculate_participants.  The username lists are sorted lists of         *)
(* distinct names: sets.                                                   *)
(***************************************************************************)
MaintainerAssociations == {"OWNER", "MEMBER", "COLLABORATOR", "CONTRIBUTOR"}

calculate_participants(iss, cs) ==
    LET all == 1..Len(cs)
        author == login_of(iss)
        commenters == {cs[i].user.login : i \in {j \in all : cs[j].user.login # NoLogin}}
        maintainers == {cs[i].user.login :
                          i \in {j \in all : /\ cs[j].user.login # NoLogin
                                             /\ cs[j].author_association
                                                  \in MaintainerAssociations}}
        participants == (IF author.value # NoLogin THEN {author.value} ELSE {})
                        \cup commenters
    IN  IF author.raised \/ \E i \in all : login_of(cs[i]).raised
        THEN Raised
        ELSE Returned([total_participants |-> Cardinality(participants),
                       unique_commenters |-> Cardinality(commenters),
                       maintainer_participants |-> Cardinality(maintainers),
                       has_maintainer_response |-> Cardinality(maintainers) > 0,
                       participant_usernames |-> participants,
                       commenter_usernames |-> commenters,
                       maintainer_usernames |-> maintainers])

(***************************************************************************)
(* find_closing_method: what each strategy does with a verdict, and with   *)
(* a failed request of its own.                                            *)
(*   "return_pr"   return (pr_metrics, None)                               *)
(*   "return_none" return (None, None)                                     *)
(*   "continue"    the loop's continue statement                           *)
(*   "fall"        control falls out of the if and goes on below it        *)
(*   "raise"       the exception leaves find_closing_method                *)
(***************************************************************************)
(* a variant of early_return that looks at the timeline only *)
early_return_timeline_only(issue_closed_at, evs) ==
    events_of_kind(evs, "closed") = {}

early_return(issue_closed_at, evs) ==
    issue_closed_at = NoTime \/ events_of_kind(evs, "closed") = {}

(* a variant of closed_event_of that takes the last closed event of the
   input *)
closed_event_of_last_position(evs) ==
    CHOOSE i \in events_of_kind(evs, "closed") :
        \A j \in events_of_kind(evs, "closed") : j <= i

closed_event_of(evs) == latest(evs, events_of_kind(evs, "closed"))

(* a variant of strategy1_does that goes on to strategy 2 whatever the verdict *)
strategy1_does_goes_on(verdict) == "fall"

strategy1_does(verdict) ==
    IF verdict = "accept" THEN "return_pr" ELSE "fall"

(* a variant of strategy2_does where a rejection returns, as in strategy 4 *)
strategy2_does_rejection_returns(verdict) ==
    IF verdict = "accept" THEN "return_pr"
    ELSE IF verdict \in {"before", "far"} THEN "return_none"
    ELSE "fall"

strategy2_does(verdict) ==
    IF verdict = "accept" THEN "return_pr"
    ELSE IF verdict \in {"before", "far"} THEN "continue"
    ELSE "fall"

(* a variant of strategy3_source_does where a rejected source PR falls
   through to the commit lookup *)
strategy3_source_does_rejection_falls(verdict) ==
    IF verdict = "accept" THEN "return_pr" ELSE "fall"

strategy3_source_does(verdict) ==
    IF verdict = "accept" THEN "return_pr"
    ELSE IF verdict \in {"before", "far"} THEN "continue"
    ELSE "fall"

strategy3_commit_does(verdict) ==
    IF verdict = "accept" THEN "return_pr"
    ELSE IF verdict \in {"before", "far"} THEN "continue"
    ELSE "fall"

(* a variant of strategy3_commit_on_error without the try statement *)
strategy3_commit_on_error_uncaught == "raise"

(* except Exception: continue *)
strategy3_commit_on_error == "continue"

strategy4_does(verdict) ==
    IF verdict = "accept" THEN "return_pr"
    ELSE IF verdict \in {"before", "far"} THEN "return_none"
    ELSE "fall"

(* except Exception as e: print(...), then the final return None, None *)
strategy4_on_error == "fall"

(* a variant of commit_sha_of that splits the URL without stripping its
   trailing slashes *)
commit_sha_of_unstripped(closed_event) ==
    IF closed_event.commit_id = << >> /\ closed_event.commit_url # << >>
    THEN last_part(closed_event.commit_url, "/")
    ELSE closed_event.commit_id

(* the commit identifier strategy 4 takes from the closed event: commit_id,
   or else the last path segment of commit_url *)
commit_sha_of(closed_event) ==
    IF closed_event.commit_id = << >> /\ closed_event.commit_url # << >>
    THEN last_part(rstrip(closed_event.commit_url, "/"), "/")
    ELSE closed_event.commit_id

(* a variant of strategy4_returns that adds the commit's metrics to an
   accepted PR *)
strategy4_returns_with_commit(prs, pr_metrics, verdict, commit_sha, commit_ans) ==
    IF prs.pulls = "some"
    THEN IF strategy4_does(verdict) = "return_pr"
         THEN <<pr_metrics, extract_commit_metrics(commit_sha, "ok")>>
         ELSE <<None, None>>
    ELSE <<None, extract_commit_metrics(commit_sha, commit_ans)>>

(* the pair strategy 4 returns once its PRs-for-commit request is answered *)
strategy4_returns(prs, pr_metrics, verdict, commit_sha, commit_ans) ==
    IF prs.pulls = "some"
    THEN IF strategy4_does(verdict) = "return_pr"
         THEN <<pr_metrics, None>>
         ELSE <<None, None>>
    ELSE <<None, extract_commit_metrics(commit_sha, commit_ans)>>

NoAnswer == [details |-> "none", merged_at |-> NoTime, reviews |-> 0]

Step(s, ev, n, ans, pulls, commit, verdict) ==
    [strategy |-> s, ev |-> ev, number |-> n, ans |-> ans, pulls |-> pulls,
     commit |-> commit, verdict |-> verdict]

NoStep == Step(0, 0, 0, NoAnswer, "skipped", "skipped", "none")

Return(pr, commit) ==
    /\ closing_pr' = pr
    /\ closing_commit' = commit
    /\ pc' = "done"
    /\ k' = k

Goto(label, index) ==
    /\ pc' = label
    /\ k' = index
    /\ UNCHANGED <<closing_pr, closing_commit>>

Raise ==
    /\ pc' = "raised"
    /\ UNCHANGED <<k, closing_pr, closing_commit>>

(* "end" is the function's last statement, return None, None *)
Fall(label, index) ==
    IF label = "end" THEN Return(None, None) ELSE Goto(label, index)

Do(does, pr_metrics, continue_at, fall_to) ==
    CASE does = "return_pr" -> Return(pr_metrics, None)
      [] does = "return_none" -> Return(None, None)
      [] does = "continue" -> Goto(continue_at[1], continue_at[2])
      [] does = "raise" -> Raise
      [] OTHER -> Fall(fall_to[1], fall_to[2])

(* the answers to the PR requests that follow a PRs-for-commit request *)
PrAnswersAfter(prs, iss) ==
    IF prs.pulls = "some" THEN PrAnswers(iss) ELSE {NoAnswer}

(***************************************************************************)
(* find_closing_method, one action per strategy step.                      *)
(***************************************************************************)
Start ==
    /\ pc = "start"
    /\ IF early_return(issue.closed_at, events)
       THEN Return(None, None)
       ELSE Goto("s1", 1)
    /\ last' = NoStep
    /\ UNCHANGED <<issue, events, calls, examined, accepted>>
    /\ UNCHANGED <<main_vars, calc_vars>>

(* Strategy 1: the source of the latest closed event *)
Strategy1 ==
    /\ pc = "s1"
    /\ LET ce == closed_event_of(events)
           source == events[ce].source
       IN  IF is_pr_reference(source)
           THEN \E ans \in PrAnswers(issue) :
                  LET pr_metrics == extract_pr_metrics(source.number, ans)
                      verdict == validate(pr_metrics, issue.created_at,
                                          issue.closed_at, Window1)
                  IN  /\ Do(strategy1_does(verdict), pr_metrics,
                            <<"s2", 1>>, <<"s2", 1>>)
                      /\ calls' = calls \cup {1}
                      /\ accepted' = IF verdict = "accept" THEN 1 ELSE accepted
                      /\ last' = Step(1, ce, source.number, ans, "skipped",
                                      "skipped", verdict)
           ELSE /\ Goto("s2", 1)
                /\ last' = Step(1, ce, 0, NoAnswer, "skipped", "skipped", "none")
                /\ UNCHANGED <<calls, accepted>>
    /\ UNCHANGED <<issue, events, examined>>
    /\ UNCHANGED <<main_vars, calc_vars>>

(* Strategy 2: one iteration of the loop over the cross-referenced events,
   or the end of the loop *)
Strategy2 ==
    /\ pc = "s2"
    /\ LET order == sorted_desc(events, events_of_kind(events, "cross-referenced"))
       IN  IF k > Len(order)
           THEN /\ Goto("s3a", 1)
                /\ last' = Step(2, 0, 0, NoAnswer, "skipped", "skipped", "none")
                /\ UNCHANGED <<calls, examined, accepted>>
           ELSE LET ref_source == events[order[k]].source
                IN  /\ examined' = examined \cup {order[k]}
                    /\ IF is_pr_reference(ref_source)
                       THEN \E ans \in PrAnswers(issue) :
                              LET pr_metrics == extract_pr_metrics(ref_source.number, ans)
                                  verdict == validate(pr_metrics, issue.created_at,
                                                      issue.closed_at, Window7)
                              IN  /\ Do(strategy2_does(verdict), pr_metrics,
                                        <<"s2", k + 1>>, <<"s2", k + 1>>)
                                  /\ calls' = calls \cup {2}
                                  /\ accepted' = IF verdict = "accept" THEN 2 ELSE accepted
                                  /\ last' = Step(2, order[k], ref_source.number, ans,
                                                  "skipped", "skipped", verdict)
                       ELSE /\ Goto("s2", k + 1)
                            /\ last' = Step(2, order[k], 0, NoAnswer, "skipped",
                                            "skipped", "none")
                            /\ UNCHANGED <<calls, accepted>>
    /\ UNCHANGED <<issue, events>>
    /\ UNCHANGED <<main_vars, calc_vars>>

(* Strategy 3, first half of one iteration: the referenced event's source;
   or the end of the loop *)
Strategy3Source ==
    /\ pc = "s3a"
    /\ LET order == sorted_desc(events, events_of_kind(events, "referenced"))
       IN  IF k > Len(order)
           THEN /\ Goto("s4", 1)
                /\ last' = Step(3, 0, 0, NoAnswer, "skipped", "skipped", "none")
                /\ UNCHANGED <<calls, examined, accepted>>
           ELSE LET ref_source == events[order[k]].source
                IN  /\ examined' = examined \cup {order[k]}
                    /\ IF is_pr_reference(ref_source)
                       THEN \E ans \in PrAnswers(issue) :
                              LET pr_metrics == extract_pr_metrics(ref_source.number, ans)
                                  verdict == validate(pr_metrics, issue.created_at,
                                                      issue.closed_at, Window7)
                              IN  /\ Do(strategy3_source_does(verdict), pr_metrics,
                                        <<"s3a", k + 1>>, <<"s3b", k>>)
                                  /\ calls' = calls \cup {3}
                                  /\ accepted' = IF verdict = "accept" THEN 3 ELSE accepted
                                  /\ last' = Step(3, order[k], ref_source.number, ans,
                                                  "skipped", "skipped", verdict)
                       ELSE /\ Goto("s3b", k)
                            /\ last' = Step(3, order[k], 0, NoAnswer, "skipped",
                                            "skipped", "none")
                            /\ UNCHANGED <<calls, accepted>>
    /\ UNCHANGED <<issue, events>>
    /\ UNCHANGED <<main_vars, calc_vars>>

(* Strategy 3, second half of the iteration: the referenced event's commit *)
Strategy3Commit ==
    /\ pc = "s3b"
    /\ LET order == sorted_desc(events, events_of_kind(events, "referenced"))
           ref_commit_id == events[order[k]].commit_id
       IN  IF ref_commit_id # << >>
           THEN \E prs \in PullsAnswers :
                \E ans \in PrAnswersAfter(prs, issue) :
                  LET pr_metrics == extract_pr_metrics(prs.number, ans)
                      verdict == IF prs.pulls = "some"
                                 THEN validate(pr_metrics, issue.created_at,
                                               issue.closed_at, Window7)
                                 ELSE "none"
                      does == CASE prs.pulls = "some" -> strategy3_commit_does(verdict)
                                [] prs.pulls = "fail" -> strategy3_commit_on_error
                                [] OTHER -> "fall"
                  IN  /\ Do(does, pr_metrics, <<"s3a", k + 1>>, <<"s3a", k + 1>>)
                      /\ calls' = calls \cup {3}
                      /\ accepted' = IF verdict = "accept" THEN 3 ELSE accepted
                      /\ last' = Step(3, order[k], prs.number, ans, prs.pulls,
                                      "skipped", verdict)
           ELSE /\ Goto("s3a", k + 1)
                /\ last' = Step(3, order[k], 0, NoAnswer, "skipped", "skipped", "none")
                /\ UNCHANGED <<calls, accepted>>
    /\ UNCHANGED <<issue, events, examined>>
    /\ UNCHANGED <<main_vars, calc_vars>>

(* Strategy 4: the commit of the latest closed event, and the final return *)
Strategy4 ==
    /\ pc = "s4"
    /\ LET ce == closed_event_of(events)
           commit_sha == commit_sha_of(events[ce])
       IN  IF commit_sha # << >>
           THEN \E prs \in PullsAnswers :
                \E ans \in PrAnswersAfter(prs, issue) :
                \E commit_ans \in (IF prs.pulls = "empty" THEN CommitAnswers
                                                          ELSE {"skipped"}) :
                  LET pr_metrics == extract_pr_metrics(prs.number, ans)
                      verdict == IF prs.pulls = "some"
                                 THEN validate(pr_metrics, issue.created_at,
                                               issue.closed_at, Window7)
                                 ELSE "none"
                      returns == strategy4_returns(prs, pr_metrics, verdict,
                                                   commit_sha, commit_ans)
                  IN  /\ IF prs.pulls = "fail"
                         THEN Do(strategy4_on_error, None, <<"s4", 1>>, <<"end", 1>>)
                         ELSE Return(returns[1], returns[2])
                      /\ calls' = calls \cup {4}
                      /\ accepted' = IF verdict = "accept" THEN 4 ELSE accepted
                      /\ last' = Step(4, ce, prs.number, ans, prs.pulls,
                                      commit_ans, verdict)
           ELSE /\ Fall("end", 1)
                /\ last' = Step(4, ce, 0, NoAnswer, "skipped", "skipped", "none")
                /\ UNCHANGED <<calls, accepted>>
    /\ UNCHANGED <<issue, events, examined>>
    /\ UNCHANGED <<main_vars, calc_vars>>

(***************************************************************************)
(* The inputs of find_closing_method: issues and timelines.                *)
(***************************************************************************)
IssueTimes == [created_at : {NoTime, 300000, 950000}, closed_at : {NoTime, 1000000}]

Issues == {[state |-> "closed", created_at |-> t.created_at, closed_at |-> t.closed_at] :
              t \in IssueTimes}

EventPool ==
    { Event("closed", 2, PR(11), << >>, << >>),
      Event("closed", 1, NoSource, << >>, <<"h", "/", "b", "/">>),
      Event("closed", 0, PR(12), <<"a">>, <<"h", "/", "b">>),
      Event("cross-referenced", 1, PR(21), << >>, << >>),
      Event("cross-referenced", 2, PR(22), << >>, << >>),
      Event("referenced", 1, PR(31), << >>, << >>),
      Event("referenced", 2, NoSource, <<"c">>, << >>),
      Event("referenced", 2, PR(32), <<"c">>, << >>) }

Timelines(pool, n) == UNION {[1..m -> pool] : m \in 0..n}


NoRecord == [row |-> 0, state |-> "none", reopen_metrics |-> None,
             closing_pr |-> None, closing_commit |-> None]

NoFetches == [url |-> "none", issue |-> "none", comments |-> "none",
              timeline |-> "none", calculators |-> "none"]

NoResult == [of |-> "none", raised |-> FALSE, value |-> << >>]

(* the locals of a fresh call of find_closing_method *)
Entry ==
    /\ pc = "start"
    /\ k = 1
    /\ closing_pr = None
    /\ closing_commit = None
    /\ calls = {}
    /\ examined = {}
    /\ accepted = 0
    /\ last = NoStep

(* find_closing_method called on any issue and timeline *)
Init ==
    /\ issue \in Issues
    /\ events \in Timelines(EventPool, MaxEvents)
    /\ Entry
    /\ mainpc = "idle"
    /\ row = 0
    /\ got = NoFetches
    /\ out = << >>
    /\ rec = NoRecord
    /\ failed = {}
    /\ comments = << >>
    /\ result = NoResult

Next ==
    \/ Start
    \/ Strategy1
    \/ Strategy2
    \/ Strategy3Source
    \/ Strategy3Commit
    \/ Strategy4

Spec == Init /\ [][Next]_vars

(***************************************************************************)
(* main and build_output: one pass over the rows of the input file.        *)
(***************************************************************************)
MainIssues == [state : {"open", "closed"}, created_at : {NoTime, 300000},
               closed_at : {NoTime, 1000000}, user : {User("alice")}]

MainEventPool ==
    { Event("closed", 1, NoSource, <<"a">>, << >>),
      Event("reopened", 2, NoSource, << >>, << >>),
      Event("closed", 3, PR(11), << >>, << >>),
      Event("cross-referenced", 2, PR(21), << >>, << >>),
      Event("referenced", 2, NoSource, <<"c">>, << >>) }

(* what the three mandatory requests of a row may answer *)
IssueAnswers == {[ok |-> FALSE, value |-> i] : i \in {CHOOSE i \in MainIssues : TRUE}}
                \cup {[ok |-> TRUE, value |-> i] : i \in MainIssues}

CommentsAnswers ==
    {[ok |-> FALSE, value |-> << >>],
     [ok |-> TRUE, value |-> << >>],
     [ok |-> TRUE, value |-> <<Comment(User("bob"), 400000, "MEMBER")>>],
     [ok |-> TRUE, value |-> <<Comment(NullUser, 400000, "NONE")>>]}

TimelineAnswers == {[ok |-> FALSE, value |-> << >>]}
                   \cup {[ok |-> TRUE, value |-> t] :
                            t \in Timelines(MainEventPool, MaxMainEvents)}

(* a fetch that lets its exception out: fetch_issue, fetch_comments *)
fetch_raising(ans) ==
    [raised |-> ~ans.ok, value |-> ans.value]

(* a variant of fetch_timeline without the try statement *)
fetch_timeline_raising(ans) ==
    [raised |-> ~ans.ok, value |-> ans.value]

(* fetch_timeline: its try/except turns any failure into an empty timeline *)
fetch_timeline(ans) ==
    [raised |-> FALSE, value |-> IF ans.ok THEN ans.value ELSE << >>]

(* the metric calculators build_output calls before find_closing_method *)
calculators_raise(iss, cs, evs) ==
    \/ calculate_timestamps(iss, cs).raised
    \/ calculate_participants(iss, cs).raised

Record(r, iss, evs, pr, commit) ==
    [row |-> r, state |-> iss.state,
     reopen_metrics |-> Some(calculate_reopen_metrics(iss, evs)),
     closing_pr |-> pr, closing_commit |-> commit]

NoIssue == [state |-> "open", created_at |-> NoTime, closed_at |-> NoTime]

(* no call of find_closing_method is running: its locals do not exist *)
NoCall ==
    /\ issue = NoIssue
    /\ events = << >>
    /\ pc = "none"
    /\ k = 1
    /\ closing_pr = None
    /\ closing_commit = None
    /\ calls = {}
    /\ examined = {}
    /\ accepted = 0
    /\ last = NoStep

(* find_closing_method returns: its locals are gone *)
EndCall ==
    /\ issue' = NoIssue
    /\ events' = << >>
    /\ pc' = "none"
    /\ k' = 1
    /\ closing_pr' = None
    /\ closing_commit' = None
    /\ calls' = {}
    /\ examined' = {}
    /\ accepted' = 0
    /\ last' = NoStep

(* a variant of build_output_on_error without the try statement *)
build_output_on_error_uncaught == "raise"

(* except Exception as e: print(...); return None *)
build_output_on_error == "return_none"

(* build_output returns None: main writes nothing and goes to the next row *)
SkipRow ==
    /\ rec' = NoRecord
    /\ out' = out
    /\ row' = row + 1
    /\ mainpc' = "loop"

(* an exception leaves build_output and main *)
Abort ==
    /\ mainpc' = "aborted"
    /\ UNCHANGED <<rec, out, row>>

(* an exception is raised inside the try statement of build_output *)
OnError ==
    /\ failed' = failed \cup {row}
    /\ IF build_output_on_error = "return_none" THEN SkipRow ELSE Abort

(* main's for loop takes the next row and build_output runs up to its call
   of find_closing_method, or to its end when it makes none *)
BeginRow ==
    /\ mainpc = "loop"
    /\ row <= MaxRows
    /\ \E url_ok \in BOOLEAN, ia \in IssueAnswers, ca \in CommentsAnswers,
          ta \in TimelineAnswers :
         LET fi == fetch_raising(ia)
             fc == fetch_raising(ca)
             ft == fetch_timeline(ta)
             fetches == [url |-> "ok",
                         issue |-> IF ia.ok THEN "ok" ELSE "fail",
                         comments |-> IF ca.ok THEN "ok" ELSE "fail",
                         timeline |-> IF ta.ok THEN "ok" ELSE "fail",
                         calculators |-> "ok"]
         IN  IF ~url_ok
             THEN \* return None before anything is fetched
                  /\ got' = [NoFetches EXCEPT !.url = "bad"]
                  /\ failed' = failed \cup {row}
                  /\ SkipRow
                  /\ UNCHANGED resolver_vars
             ELSE IF fi.raised
             THEN /\ got' = [NoFetches EXCEPT !.url = "ok", !.issue = "fail"]
                  /\ OnError
                  /\ UNCHANGED resolver_vars
             ELSE IF fc.raised
             THEN /\ got' = [NoFetches EXCEPT !.url = "ok", !.issue = "ok",
                                              !.comments = "fail"]
                  /\ OnError
                  /\ UNCHANGED resolver_vars
             ELSE IF ft.raised
             THEN /\ got' = [fetches EXCEPT !.calculators = "none"]
                  /\ OnError
                  /\ UNCHANGED resolver_vars
             ELSE IF calculators_raise(fi.value, fc.value, ft.value)
             THEN /\ got' = [fetches EXCEPT !.calculators = "raise"]
                  /\ OnError
                  /\ UNCHANGED resolver_vars
             ELSE IF fi.value.state = "closed"
             THEN \* find_closing_method is called
                  /\ got' = fetches
                  /\ rec' = NoRecord
                  /\ issue' = fi.value
                  /\ events' = ft.value
                  /\ pc' = "start"
                  /\ mainpc' = "build"
                  /\ UNCHANGED <<k, closing_pr, closing_commit, calls, examined,
                                 accepted, last, row, out, failed>>
             ELSE \* no call: closing_pr and closing_commit stay None
                  /\ got' = fetches
                  /\ rec' = Record(row, fi.value, ft.value, None, None)
                  /\ out' = Append(out, row)
                  /\ row' = row + 1
                  /\ UNCHANGED <<mainpc, failed>>
                  /\ UNCHANGED resolver_vars
    /\ UNCHANGED calc_vars

(* find_closing_method has returned: build_output returns the record and
   main writes it *)
FinishRow ==
    /\ mainpc = "build"
    /\ pc \in {"done", "raised"}
    /\ IF pc = "raised"
       THEN OnError
       ELSE /\ rec' = Record(row, issue, events, closing_pr, closing_commit)
            /\ out' = Append(out, row)
            /\ row' = row + 1
            /\ mainpc' = "loop"
            /\ failed' = failed
    /\ EndCall
    /\ UNCHANGED got
    /\ UNCHANGED calc_vars

InitMain ==
    /\ NoCall
    /\ mainpc = "loop"
    /\ row = 1
    /\ got = NoFetches
    /\ out = << >>
    /\ rec = NoRecord
    /\ failed = {}
    /\ comments = << >>
    /\ result = NoResult

NextMain ==
    \/ BeginRow
    \/ FinishRow
    \/ Start
    \/ Strategy1
    \/ Strategy2
    \/ Strategy3Source
    \/ Strategy3Commit
    \/ Strategy4

SpecMain == InitMain /\ [][NextMain]_vars

(***************************************************************************)
(* The calculators, each applied to any issue with any comments or         *)
(* timeline (specification SpecCalc).                                      *)
(***************************************************************************)
CalcIssues == [state : {"open", "closed"}, created_at : {NoTime, 100},
               closed_at : {NoTime, 500},
               user : {User("alice"), User(NoLogin), NullUser}]

CommentPool ==
    { Comment(User("alice"), 150, "NONE"),
      Comment(User("alice"), 200, "OWNER"),
      Comment(User("bob"), 200, "MEMBER"),
      Comment(User("bob"), 160, "NONE"),
      Comment(User("carol"), NoTime, "NONE"),
      Comment(User("carol"), 300, "CONTRIBUTOR"),
      Comment(User(NoLogin), 120, "MEMBER"),
      Comment(NullUser, 130, "NONE") }

CalcEventPool ==
    { Event("closed", 10, NoSource, << >>, << >>),
      Event("reopened", 20, NoSource, << >>, << >>),
      Event("closed", 30, NoSource, << >>, << >>),
      Event("reopened", 5, NoSource, << >>, << >>),
      Event("reopened", NoTime, NoSource, << >>, << >>),
      Event("closed", NoTime, NoSource, << >>, << >>),
      Event("labeled", 15, NoSource, << >>, << >>) }

(* a calculator is called on an issue with its comments, or with its
   timeline *)
InitCalc ==
    /\ \/ /\ issue \in CalcIssues
          /\ comments \in Timelines(CommentPool, MaxComments)
          /\ events = << >>
       \/ /\ issue \in {i \in CalcIssues : i.user = User("alice")}
          /\ comments = << >>
          /\ events \in Timelines(CalcEventPool, MaxEvents)
    /\ result = NoResult
    /\ pc = "none"
    /\ k = 1
    /\ closing_pr = None
    /\ closing_commit = None
    /\ calls = {}
    /\ examined = {}
    /\ accepted = 0
    /\ last = NoStep
    /\ mainpc = "idle"
    /\ row = 0
    /\ got = NoFetches
    /\ out = << >>
    /\ rec = NoRecord
    /\ failed = {}

Applied(name, returns) ==
    [of |-> name, raised |-> returns.raised, value |-> returns.value]

CalcTimestamps ==
    /\ result.of = "none"
    /\ result' = Applied("timestamps", calculate_timestamps(issue, comments))
    /\ UNCHANGED <<comments, resolver_vars, main_vars>>

CalcParticipants ==
    /\ result.of = "none"
    /\ result' = Applied("participants", calculate_participants(issue, comments))
    /\ UNCHANGED <<comments, resolver_vars, main_vars>>

CalcReopen ==
    /\ result.of = "none"
    /\ result' = Applied("reopen", Returned(calculate_reopen_metrics(issue, events)))
    /\ UNCHANGED <<comments, resolver_vars, main_vars>>

NextCalc ==
    \/ CalcTimestamps
    \/ CalcParticipants
    \/ CalcReopen

SpecCalc == InitCalc /\ [][NextCalc]_vars

(***************************************************************************)
(* Properties of find_closing_method (specification Spec).                 *)
(***************************************************************************)

(* C1: whatever the timeline holds and whatever the requests answer, the
   pair find_closing_method returns never has both closing_pr and
   closing_commit non-null. *)
C1_AtMostOneAttribution ==
    ~(closing_pr # None /\ closing_commit # None)

(* a call that went through all four strategies' sources of candidates and
   returned a direct commit *)
C1_Witness ==
    /\ pc = "done"
    /\ closing_pr = None
    /\ closing_commit # None
    /\ calls = {1, 2, 4}

(* C2: when the issue's closed_at is absent, or the timeline has no closed
   event, find_closing_method returns (None, None) and sends no request at
   all, whatever other events the timeline holds. *)
C2_EarlyReturnWithoutFetch ==
    (\/ issue.closed_at = NoTime
     \/ \A i \in 1..Len(events) : events[i].event # "closed")
    => /\ pc \in {"start", "done"}
       /\ closing_pr = None
       /\ closing_commit = None
       /\ calls = {}
       /\ last.strategy = 0

(* a call that returned on a timeline with a closed event and a
   cross-referenced PR, for an issue without closed_at *)
C2_Witness ==
    /\ pc = "done"
    /\ issue.closed_at = NoTime
    /\ \E i \in 1..Len(events) : events[i].event = "closed"
    /\ \E i \in 1..Len(events) :
          events[i].event = "cross-referenced" /\ events[i].source.number # 0

(* C3: a candidate PR merged strictly before the issue was created is never
   returned as closing_pr, whichever strategy found it. *)
C3_MergedBeforeCreationNeverReturned ==
    /\ (closing_pr # None /\ issue.created_at # NoTime)
       => ~(closing_pr[1].merged_at < issue.created_at)
    /\ (/\ last.ans.details = "ok"
        /\ last.ans.merged_at # NoTime
        /\ issue.created_at # NoTime
        /\ last.ans.merged_at < issue.created_at)
       => closing_pr = None

(* strategy 1 turned down a PR merged one second before the creation and
   less than a day from the close *)
C3_Witness ==
    /\ last.strategy = 1
    /\ last.ans.details = "ok"
    /\ issue.created_at # NoTime
    /\ last.ans.merged_at = issue.created_at - 1
    /\ Abs(last.ans.merged_at - issue.closed_at) < 86400
    /\ pc = "s2"
    /\ closing_pr = None

(* C4: a merged candidate not merged before the creation, d seconds from
   the close on either side, is returned by strategy 1 exactly when
   d <= 86400 and by strategies 2, 3 and 4 exactly when d <= 604800. *)
C4_Windows ==
    LET m == last.ans.merged_at
        d == IF m < issue.closed_at THEN issue.closed_at - m ELSE m - issue.closed_at
        limit == IF last.strategy = 1 THEN 86400 ELSE 604800
    IN  (/\ last.ans.details = "ok"
         /\ m # NoTime
         /\ issue.created_at # NoTime
         /\ ~(m < issue.created_at))
        => ((/\ closing_pr # None
             /\ closing_pr[1].number = last.number
             /\ closing_pr[1].merged_at = m)
            <=> d <= limit)

(* strategy 1 returned a PR merged exactly a day before the close *)
C4_Witness ==
    /\ last.strategy = 1
    /\ last.ans.merged_at = issue.closed_at - 86400
    /\ pc = "done"
    /\ closing_pr # None

(* C5: a PR returned as closing_pr is merged, with a merge timestamp; a PR
   GitHub reports unmerged, or whose details could not be fetched, is never
   returned. *)
C5_ReturnedPrIsMerged ==
    closing_pr # None
    => /\ closing_pr[1].merged
       /\ closing_pr[1].merged_at # NoTime
       /\ last.number = closing_pr[1].number
       /\ last.ans.details = "ok"
       /\ last.ans.merged_at = closing_pr[1].merged_at

(* strategy 2 looked at an unmerged PR and went on *)
C5_Witness ==
    /\ last.strategy = 2
    /\ last.number # 0
    /\ last.ans.details = "ok"
    /\ last.ans.merged_at = NoTime
    /\ pc = "s2"
    /\ closing_pr = None

(* C6: the strategies run in the order 1, 2, 3, 4, and once one of them has
   a valid PR the call returns it: no later strategy sends a request. *)
C6_StrategyOrder ==
    /\ \A s \in calls : s <= last.strategy
    /\ pc = "s1" => last.strategy = 0
    /\ pc = "s2" => last.strategy \in {1, 2}
    /\ pc \in {"s3a", "s3b"} => last.strategy \in {2, 3}
    /\ pc = "s4" => last.strategy = 3
    /\ accepted # 0
       => /\ pc = "done"
          /\ closing_pr # None
          /\ last.strategy = accepted
          /\ \A s \in calls : s <= accepted

(* strategy 1 returned a PR on a timeline that also had a cross-referenced
   PR and a referenced commit *)
C6_Witness ==
    /\ accepted = 1
    /\ pc = "done"
    /\ calls = {1}
    /\ \E i \in 1..Len(events) :
          events[i].event = "cross-referenced" /\ events[i].source.number # 0
    /\ \E i \in 1..Len(events) :
          events[i].event = "referenced" /\ events[i].commit_id # << >>

(* C7: a candidate turned down by validation in strategy 1, 2 or 3 does not
   end the call, and a call that returns no PR has run every loop to its
   end and reached strategy 4; in strategy 4 a turned-down first PR of the
   commit ends the call with (None, None), the commit's details unrequested. *)
C7_RejectionEndsOnlyStrategy4 ==
    LET m == last.ans.merged_at
        limit == IF last.strategy = 1 THEN 86400 ELSE 604800
        rejected == /\ last.ans.details = "ok"
                    /\ m # NoTime
                    /\ issue.created_at # NoTime
                    /\ \/ m < issue.created_at
                       \/ m - issue.closed_at > limit
                       \/ issue.closed_at - m > limit
    IN  /\ (rejected /\ last.strategy \in {1, 2, 3})
           => /\ pc \in {"s2", "s3a"}
              /\ closing_pr = None
              /\ closing_commit = None
        /\ (rejected /\ last.strategy = 4)
           => /\ pc = "done"
              /\ closing_pr = None
              /\ closing_commit = None
              /\ last.pulls = "some"
              /\ last.commit = "skipped"
        /\ (pc = "done" /\ closing_pr = None /\ last.strategy # 0)
           => /\ last.strategy = 4
              /\ examined = {i \in 1..Len(events) :
                               events[i].event \in {"cross-referenced", "referenced"}}

(* strategy 4 found a PR for the close event's commit, merged a second
   outside the seven days, and returned (None, None) *)
C7_Witness ==
    /\ last.strategy = 4
    /\ last.pulls = "some"
    /\ last.ans.merged_at = issue.closed_at + 604801
    /\ pc = "done"
    /\ closing_pr = None
    /\ closing_commit = None
    /\ examined # {}

(* C8: when strategies 1 to 3 return nothing, strategy 4 takes the commit
   of the latest closed event (its commit_id, or else the last path segment
   of its commit_url), asks for the commit's PRs exactly when there is such
   a commit, and, when that answer is empty and the commit's details
   arrive, returns (None, the metrics of that commit). *)
C8_DirectCommit ==
    LET closed == {i \in 1..Len(events) : events[i].event = "closed"}
        segment(u) ==
            LET e == IF \A i \in 1..Len(u) : u[i] = "/" THEN 0
                     ELSE CHOOSE i \in 1..Len(u) :
                            u[i] # "/" /\ \A j \in (i + 1)..Len(u) : u[j] = "/"
                b == IF \A i \in 1..e : u[i] # "/" THEN 0
                     ELSE CHOOSE i \in 1..e :
                            u[i] = "/" /\ \A j \in (i + 1)..e : u[j] # "/"
            IN  SubSeq(u, b + 1, e)
        sha(ev) == IF ev.commit_id # << >> THEN ev.commit_id
                   ELSE segment(ev.commit_url)
    IN  (pc = "done" /\ last.strategy = 4)
        => /\ last.ev \in closed
           /\ \A j \in closed : events[j].created_at <= events[last.ev].created_at
           /\ last.pulls = "skipped" <=> sha(events[last.ev]) = << >>
           /\ (last.pulls = "empty" /\ last.commit = "ok")
              => /\ closing_pr = None
                 /\ closing_commit = Some([sha |-> sha(events[last.ev])])

(* a direct commit whose identifier came from a commit_url ending in a
   slash, after the loop of strategy 2 had run *)
C8_Witness ==
    /\ pc = "done"
    /\ last.strategy = 4
    /\ last.pulls = "empty"
    /\ last.commit = "ok"
    /\ events[last.ev].commit_id = << >>
    /\ closing_commit = Some([sha |-> <<"b">>])
    /\ 2 \in calls

(* C9 as stated: no exception leaves find_closing_method, and a failed
   request for a candidate of strategy 1, 2 or 3 (PR details, PR reviews,
   PRs of a commit) takes that candidate out: the call goes on to the next
   one; in strategy 4 it returns (None, None). *)
C9_FailedLookupRemovesCandidate ==
    LET failure == \/ last.ans.details = "fail"
                  \/ last.ans.reviews < 0
                  \/ last.pulls = "fail"
                  \/ last.commit = "fail"
    IN  /\ pc # "raised"
        /\ (failure /\ last.strategy \in {1, 2, 3})
           => (pc # "done" /\ closing_pr = None /\ closing_commit = None)
        /\ (failure /\ last.strategy = 4)
           => (pc = "done" /\ closing_pr = None /\ closing_commit = None)

(* C9, amended: no exception leaves find_closing_method; a failed PR
   details or PRs-of-a-commit request takes that candidate out and the call
   goes on (in strategy 4, as a failed commit details request, it returns
   (None, None)); a failed PR reviews request takes nothing out: the
   candidate is validated as usual and, if valid, returned with no reviews. *)
C9_FailureTolerance ==
    LET m == last.ans.merged_at
        limit == IF last.strategy = 1 THEN 86400 ELSE 604800
        valid == /\ m # NoTime
                 /\ issue.created_at # NoTime
                 /\ ~(m < issue.created_at)
                 /\ m - issue.closed_at <= limit
                 /\ issue.closed_at - m <= limit
        lost == \/ last.ans.details = "fail"
                \/ last.pulls = "fail"
                \/ last.commit = "fail"
    IN  /\ pc # "raised"
        /\ (lost /\ last.strategy \in {1, 2, 3})
           => (pc \in {"s2", "s3a", "s3b"} /\ closing_pr = None /\ closing_commit = None)
        /\ (lost /\ last.strategy = 4)
           => (pc = "done" /\ closing_pr = None /\ closing_commit = None)
        /\ (last.ans.details = "ok" /\ last.ans.reviews < 0)
           => /\ closing_pr # None <=> valid
              /\ closing_pr # None
                 => (closing_pr[1].number = last.number
                     /\ closing_pr[1].total_reviews = 0)

(* strategy 2 returned a PR whose reviews request had failed *)
C9_Witness ==
    /\ last.strategy = 2
    /\ last.ans.details = "ok"
    /\ last.ans.reviews < 0
    /\ pc = "done"
    /\ closing_pr # None
    /\ closing_pr[1].total_reviews = 0

(***************************************************************************)
(* Properties of main and build_output (specification SpecMain).           *)
(***************************************************************************)

(* C10 as stated: a row whose timeline request failed gets no record. *)
C10_TimelineFailureSkipsIssue ==
    (mainpc = "loop" /\ got.timeline = "fail")
    => (out = << >> \/ out[Len(out)] # row - 1)

(* C10, amended: a failed timeline request does not make build_output skip
   the row: the row is processed with an empty timeline.
   find_closing_method sends no request, and the row's record is written,
   with the reopen metrics of an issue never reopened and with closing_pr
   and closing_commit null; main then takes the next row.  The one row with
   a failed timeline request that gets no record is a row on which a
   calculator raises. *)
C10_TimelineFailureWritesRecord ==
    got.timeline = "fail"
    => /\ got.issue = "ok" /\ got.comments = "ok"
       /\ mainpc \in {"loop", "build"}
       /\ mainpc = "build"
          => (events = << >> /\ calls = {} /\ pc \in {"start", "done"})
       /\ (mainpc = "loop" /\ got.calculators = "raise")
          => /\ (row - 1) \in failed
             /\ \A i \in 1..Len(out) : out[i] # row - 1
       /\ (mainpc = "loop" /\ got.calculators # "raise")
          => /\ out # << >>
             /\ out[Len(out)] = row - 1
             /\ rec.row = row - 1
             /\ rec.reopen_metrics =
                  Some([was_reopened |-> FALSE, reopen_count |-> 0,
                        time_to_reopen_seconds |-> None,
                        final_resolution_time_seconds |-> None,
                        reopen_timestamps |-> << >>])
             /\ rec.closing_pr = None
             /\ rec.closing_commit = None

(* the record of a closed issue, written after its timeline request failed,
   and main at the next row *)
C10_Witness ==
    /\ mainpc = "loop"
    /\ got.timeline = "fail"
    /\ rec.state = "closed"
    /\ rec.row = 1
    /\ out = <<1>>
    /\ row = 2

(* C11: an error raised while build_output processes a row (a failed issue
   or comments request, an exception of a calculator or of
   find_closing_method) never leaves main: the row gets no record, main
   goes on to the next row, and the records written are those of the rows
   without an error, in input order, one per row. *)
C11_ErrorIsolation ==
    /\ mainpc \in {"loop", "build"}
    /\ failed \subseteq 1..(row - 1)
    /\ \A i \in 1..(Len(out) - 1) : out[i] < out[i + 1]
    /\ {out[i] : i \in 1..Len(out)} = (1..(row - 1)) \ failed
    /\ (mainpc = "loop" /\ row > 1)
       => ((\/ got.url = "bad"
            \/ got.issue = "fail"
            \/ got.comments = "fail"
            \/ got.calculators = "raise")
           <=> (row - 1) \in failed)

(* the first row raised, on a comment whose user is null or on a failed
   request, and the second row's record was written *)
C11_Witness ==
    /\ mainpc = "loop"
    /\ failed = {1}
    /\ out = <<2>>
    /\ row = 3
    /\ rec.row = 2

(***************************************************************************)
(* Properties of the calculators (specification SpecCalc).                 *)
(***************************************************************************)

(* C12: on an issue and comments whose users are objects,
   calculate_timestamps returns, and time_to_first_response_seconds is the
   seconds from the issue's creation to the least creation timestamp among
   the comments whose author is not the issue's author (a comment without a
   timestamp counting as the earliest, and then giving no value); it is
   absent when every comment is by the issue's author, when there are no
   comments, and when the issue has no created_at. *)
C12_FirstResponse ==
    LET others == {i \in 1..Len(comments) :
                     comments[i].user.login # issue.user.login}
        stamps == {comments[i].created_at : i \in others}
        least == CHOOSE m \in stamps : \A x \in stamps : m <= x
        value == result.value.time_to_first_response_seconds
    IN  result.of = "timestamps"
        => /\ (~issue.user.null /\ \A i \in 1..Len(comments) : ~comments[i].user.null)
              => ~result.raised
           /\ ~result.raised
              => IF others = {} \/ issue.created_at = NoTime THEN value = None
                 ELSE IF least = NoTime THEN value = None
                 ELSE value = Some(least - issue.created_at)

(* the author commented first and someone else later: the later comment
   gives the value *)
C12_Witness ==
    /\ result.of = "timestamps"
    /\ ~result.raised
    /\ issue.user = User("alice")
    /\ issue.created_at = 100
    /\ comments = <<Comment(User("bob"), 200, "MEMBER"),
                    Comment(User("alice"), 150, "NONE")>>
    /\ result.value.time_to_first_response_seconds = Some(100)
    /\ result.value.time_to_first_comment_seconds = Some(50)

(* C13: calculate_reopen_metrics never raises; was_reopened holds exactly
   when the timeline has a reopened event, reopen_count is the number of
   reopened events and reopen_timestamps has that many entries;
   time_to_reopen_seconds is the least reopened timestamp minus the least
   closed timestamp, wherever the events stand in the timeline, and is
   absent when there is no closed event or when the earliest event of
   either kind has no timestamp. *)
C13_ReopenMetrics ==
    LET reopened == {i \in 1..Len(events) : events[i].event = "reopened"}
        closed == {i \in 1..Len(events) : events[i].event = "closed"}
        least(idx) == CHOOSE m \in {events[i].created_at : i \in idx} :
                        \A i \in idx : m <= events[i].created_at
        value == result.value
    IN  result.of = "reopen"
        => /\ ~result.raised
           /\ value.was_reopened <=> reopened # {}
           /\ value.reopen_count = Cardinality(reopened)
           /\ Len(value.reopen_timestamps) = Cardinality(reopened)
           /\ value.time_to_reopen_seconds =
                IF reopened = {} \/ closed = {} THEN None
                ELSE IF least(reopened) = NoTime \/ least(closed) = NoTime THEN None
                ELSE Some(least(reopened) - least(closed))

(* closed at 10, reopened at 20, closed again at 30, given in reverse *)
C13_Witness ==
    /\ result.of = "reopen"
    /\ events = <<Event("closed", 30, NoSource, << >>, << >>),
                  Event("reopened", 20, NoSource, << >>, << >>),
                  Event("closed", 10, NoSource, << >>, << >>)>>
    /\ result.value.was_reopened
    /\ result.value.reopen_count = 1
    /\ result.value.time_to_reopen_seconds = Some(10)

(* C14: for any issue and comments calculate_participants returns, without
   raising: participants are the issue's author and the commenters,
   commenters the distinct comment authors, maintainers the commenters
   with a comment of association OWNER, MEMBER, COLLABORATOR or
   CONTRIBUTOR; the counts are the sizes of these sets;
   has_maintainer_response holds exactly when there is a maintainer; an
   author or commenter without a username is in none of the sets. *)
C14_Participants ==
    LET named == {i \in 1..Len(comments) :
                    ~comments[i].user.null /\ comments[i].user.login # ""}
        commenters == {comments[i].user.login : i \in named}
        maintainers == {comments[i].user.login :
                          i \in {j \in named :
                                   comments[j].author_association
                                     \in {"OWNER", "MEMBER", "COLLABORATOR",
                                          "CONTRIBUTOR"}}}
        author == IF ~issue.user.null /\ issue.user.login # ""
                  THEN {issue.user.login} ELSE {}
        value == result.value
    IN  result.of = "participants"
        => /\ ~result.raised
           /\ value.participant_usernames = author \cup commenters
           /\ value.commenter_usernames = commenters
           /\ value.maintainer_usernames = maintainers
           /\ value.total_participants = Cardinality(author \cup commenters)
           /\ value.unique_commenters = Cardinality(commenters)
           /\ value.maintainer_participants = Cardinality(maintainers)
           /\ value.has_maintainer_response <=> maintainers # {}
           /\ value.maintainer_usernames \subseteq value.commenter_usernames
           /\ value.commenter_usernames \subseteq value.participant_usernames

(***************************************************************************)
(* Further properties of find_closing_method (specification Spec).         *)
(***************************************************************************)

(* C15 as stated: in strategy 3 the PRs-of-the-commit request of a
   referenced event is made only when the event's source is not a PR
   reference. *)
C15_CommitLookupOnlyWithoutSourcePr ==
    (last.strategy = 3 /\ last.pulls # "skipped")
    => ~(/\ events[last.ev].source.type = "issue"
         /\ events[last.ev].source.number # 0)

(* C15, amended: in strategy 3 the PRs-of-the-commit request of a
   referenced event is made only for an event with a commit identifier
   whose source did not settle it: the source is not a PR reference, or the
   source PR could not be fetched, is not merged, or cannot be dated
   against the issue.  An event whose source PR was validated, returned or
   turned down, never gets the request. *)
C15_CommitLookupUnlessSourceValidated ==
    LET src == events[last.ev].source
        shaped == src.type = "issue" /\ src.number # 0
        validated == /\ last.ans.details = "ok"
                     /\ last.ans.merged_at # NoTime
                     /\ issue.created_at # NoTime
    IN  /\ pc = "s3b"
           => /\ last.strategy = 3
              /\ last.pulls = "skipped"
              /\ events[last.ev].event = "referenced"
              /\ ~shaped \/ ~validated
        /\ (last.strategy = 3 /\ last.pulls # "skipped")
           => /\ events[last.ev].event = "referenced"
              /\ events[last.ev].commit_id # << >>
        /\ (/\ last.strategy = 3
            /\ last.pulls = "skipped"
            /\ last.number # 0
            /\ validated)
           => pc \in {"s3a", "done"}

(* a referenced event whose source PR was not merged: the PR of its commit
   was asked for, found and returned *)
C15_Witness ==
    /\ last.strategy = 3
    /\ last.pulls = "some"
    /\ events[last.ev].source.type = "issue"
    /\ events[last.ev].source.number = 32
    /\ pc = "done"
    /\ closing_pr # None
    /\ closing_pr[1].number = 41

(* C16: strategies 1 and 4 work on a closed event of the greatest creation
   timestamp, wherever it stands in the timeline (an event without a
   timestamp counting as the earliest): strategy 1 asks for a PR only if
   that event's source is a PR reference, and for that PR; strategy 4 asks
   for a commit's PRs only if that event has a commit_id or commit_url. *)
C16_LatestClosedEvent ==
    LET closed == {i \in 1..Len(events) : events[i].event = "closed"}
        newest == {i \in closed :
                     \A j \in closed : events[j].created_at <= events[i].created_at}
        shaped(src) == src.type = "issue" /\ src.number # 0
    IN  /\ last.strategy \in {1, 4} => last.ev \in newest
        /\ last.strategy = 1
           => last.number = IF shaped(events[last.ev].source)
                            THEN events[last.ev].source.number ELSE 0
        /\ 1 \in calls => \E i \in newest : shaped(events[i].source)
        /\ 4 \in calls
           => \E i \in newest : \/ events[i].commit_id # << >>
                                \/ events[i].commit_url # << >>
        /\ closing_commit # None
           => /\ last.strategy = 4
              /\ \/ closing_commit[1].sha = events[last.ev].commit_id
                 \/ /\ events[last.ev].commit_id = << >>
                    /\ closing_commit[1].sha # << >>
                    /\ \E n \in 1..Len(events[last.ev].commit_url) :
                          closing_commit[1].sha
                            = SubSeq(events[last.ev].commit_url, n,
                                     n + Len(closing_commit[1].sha) - 1)

(* the final closed event stands first in the timeline, before an earlier
   one closed by a PR: no PR is asked for by strategy 1 and the final
   event's commit is returned *)
C16_Witness ==
    /\ pc = "done"
    /\ Len(events) >= 2
    /\ events[1].event = "closed"
    /\ events[2].event = "closed"
    /\ events[2].created_at < events[1].created_at
    /\ events[2].source.number # 0
    /\ events[2].commit_id # << >>
    /\ ~(1 \in calls)
    /\ last.strategy = 4
    /\ last.ev = 1
    /\ closing_commit = Some([sha |-> <<"b">>])

(* C17: the loops of strategies 2 and 3 take their events from the latest
   creation timestamp to the earliest, wherever the events stand in the
   timeline, and return at the first valid candidate: when strategy 2 or 3
   returns a PR, every event of its kind later than the returned one was
   looked at before, and none earlier was looked at. *)
C17_DescendingScan ==
    LET of(kind) == {i \in 1..Len(events) : events[i].event = kind}
        kind == IF accepted = 2 THEN "cross-referenced" ELSE "referenced"
    IN  /\ \A kd \in {"cross-referenced", "referenced"} :
              \A i \in of(kd) \cap examined : \A j \in of(kd) \ examined :
                 events[j].created_at <= events[i].created_at
        /\ accepted \in {2, 3}
           => /\ last.ev \in of(kind) \cap examined
              /\ closing_pr # None
              /\ closing_pr[1].number = last.number
              /\ \A i \in of(kind) \cap examined :
                    events[i].created_at >= events[last.ev].created_at
              /\ \A j \in of(kind) :
                    events[j].created_at > events[last.ev].created_at
                    => j \in examined

(* two cross-referenced events given earliest first: strategy 2 returned
   the PR of the later one without looking at the earlier one *)
C17_Witness ==
    /\ accepted = 2
    /\ pc = "done"
    /\ Len(events) = 3
    /\ events[1].event = "cross-referenced"
    /\ events[2].event = "cross-referenced"
    /\ events[1].created_at < events[2].created_at
    /\ examined = {2}
    /\ closing_pr # None
    /\ closing_pr[1].number = events[2].source.number

(* C18: without a reopened event in the timeline calculate_reopen_metrics
   returns the defaults (was_reopened false, reopen_count 0, both times
   absent, no reopen timestamps), also for a closed issue;
   final_resolution_time_seconds has a value exactly when the issue's state
   is closed, the timeline has a reopened event and the issue has both
   created_at and closed_at, and the value is closed_at minus created_at. *)
C18_ReopenDefaults ==
    LET reopened == {i \in 1..Len(events) : events[i].event = "reopened"}
        value == result.value
    IN  result.of = "reopen"
        => /\ reopened = {}
              => value = [was_reopened |-> FALSE, reopen_count |-> 0,
                          time_to_reopen_seconds |-> None,
                          final_resolution_time_seconds |-> None,
                          reopen_timestamps |-> << >>]
           /\ value.final_resolution_time_seconds # None
              <=> (/\ issue.state = "closed"
                   /\ reopened # {}
                   /\ issue.created_at # NoTime
                   /\ issue.closed_at # NoTime)
           /\ value.final_resolution_time_seconds # None
              => value.final_resolution_time_seconds
                   = Some(issue.closed_at - issue.created_at)

(* a closed issue, created and closed, whose timeline has closed events and
   no reopened one *)
C18_Witness ==
    /\ result.of = "reopen"
    /\ issue.state = "closed"
    /\ issue.created_at # NoTime
    /\ issue.closed_at # NoTime
    /\ \E i \in 1..Len(events) : events[i].event = "closed"
    /\ \A i \in 1..Len(events) : events[i].event # "reopened"
    /\ result.value.final_resolution_time_seconds = None
    /\ ~result.value.was_reopened

====
